---- MODULE Spec2Model ----
(***************************************************************************)
(* fixture-updater.py: shift every UTC timestamp string found under the    *)
(* `fields` of each fixture object so that the most recent one becomes a   *)
(* target time.                                                            *)
(*                                                                         *)
(* Texts are sequences of one-character strings.  An instant is the triple *)
(* [d, s, us]: proleptic Gregorian ordinal of the day (0001-01-01 is 1),   *)
(* second of the day, microsecond of the second, always in UTC.  A         *)
(* timedelta is the same triple normalised as Python normalises it         *)
(* (0 <= s < 86400, 0 <= us < 10^6, d signed).                             *)
(***************************************************************************)
EXTENDS Integers, Sequences, FiniteSets, TLC

VARIABLES
    fixture,        \* the JSON document in the fixture file
    target,         \* self.target_latest_dt: [set, dt]
    padYear,        \* platform: does strftime("%Y") zero-fill years below 1000
    data,           \* self.data
    found_dates,    \* self.found_dates
    latest,         \* self.latest_dt / latest_type / latest_fraction_len
    delta,          \* self.delta: [set, d, s, us]
    updated_count,  \* self.updated_count
    output,         \* the output file: [written, tree]
    writes,         \* number of times the output file was written in this run
    pc,             \* position of main() inside run() / report()
    error,          \* the exception that ended the run, if any
    reported,       \* branch taken by report()
    runNo,          \* how many times the updater has been started
    prev,           \* what the previous run selected as its maximum entry
    txt,            \* format specification: the text under test
    parsed,         \* format specification: parse_utc_timestamp(txt)
    rendered,       \* format specification: format_utc_timestamp(parsed)
    reparsed        \* format specification: parse_utc_timestamp(rendered)

vars == <<fixture, target, padYear, data, found_dates, latest, delta,
          updated_count, output, writes, pc, error, reported, runNo, prev,
          txt, parsed, rendered, reparsed>>

runVars == <<fixture, target, data, found_dates, latest, delta,
             updated_count, output, writes, error, reported, runNo, prev>>

fmtVars == <<txt, parsed, rendered, reparsed>>

(***************************************************************************)
(* Bounds of the model.                                                    *)
(***************************************************************************)
MaxItems == 2       \* items in the top-level array of a fixture
MaxRuns == 2        \* consecutive runs (the second one reads the first one's output)

(***************************************************************************)
(* Characters and digits.                                                  *)
(***************************************************************************)
AsciiDigits == <<"0", "1", "2", "3", "4", "5", "6", "7", "8", "9">>

\* A decimal digit outside ASCII (ARABIC-INDIC DIGIT THREE): \d of a str
\* pattern matches it, datetime.fromisoformat does not read it.
UnicodeDigits == {"U+0663"}

IsAsciiDigit(c) == \E i \in 1..10 : AsciiDigits[i] = c

IsDigit(c) == IsAsciiDigit(c) \/ c \in UnicodeDigits

DigitVal(c) == (CHOOSE i \in 1..10 : AsciiDigits[i] = c) - 1

AllDigits(w) == \A i \in 1..Len(w) : IsDigit(w[i])

AllAscii(w) == \A i \in 1..Len(w) : IsAsciiDigit(w[i])

RECURSIVE NumVal(_)
NumVal(w) ==
    IF Len(w) = 0 THEN 0
    ELSE 10 * NumVal(SubSeq(w, 1, Len(w) - 1)) + DigitVal(w[Len(w)])

RECURSIVE Pow10(_)
Pow10(n) == IF n = 0 THEN 1 ELSE 10 * Pow10(n - 1)

\* "%0<w>d" % n
Pad(n, w) == [i \in 1..w |-> AsciiDigits[((n \div Pow10(w - i)) % 10) + 1]]

\* "%d" % n, n >= 0
RECURSIVE Dec(_)
Dec(n) == IF n < 10 THEN <<AsciiDigits[n + 1]>>
          ELSE Dec(n \div 10) \o <<AsciiDigits[(n % 10) + 1]>>

(***************************************************************************)
(* The calendar of datetime: proleptic Gregorian, years 1..9999.           *)
(***************************************************************************)
IsLeap(y) == y % 4 = 0 /\ (y % 100 # 0 \/ y % 400 = 0)

DaysBeforeMonthTable == <<0, 31, 59, 90, 120, 151, 181, 212, 243, 273, 304, 334>>

DaysInMonth(y, m) ==
    IF m = 2 THEN (IF IsLeap(y) THEN 29 ELSE 28)
    ELSE IF m \in {4, 6, 9, 11} THEN 30 ELSE 31

DaysBeforeMonth(y, m) ==
    DaysBeforeMonthTable[m] + (IF m > 2 /\ IsLeap(y) THEN 1 ELSE 0)

DaysBeforeYear(y) ==
    (y - 1) * 365 + ((y - 1) \div 4) - ((y - 1) \div 100) + ((y - 1) \div 400)

Ymd2ord(y, m, d) == DaysBeforeYear(y) + DaysBeforeMonth(y, m) + d

MinOrdinal == Ymd2ord(1, 1, 1)

MaxOrdinal == Ymd2ord(9999, 12, 31)

\* ordinal -> [y, m, d]
Ord2ymd(ord) ==
    LET n0   == ord - 1
        n400 == n0 \div 146097
        r400 == n0 % 146097
        n100 == r400 \div 36524
        r100 == r400 % 36524
        n4   == r100 \div 1461
        r4   == r100 % 1461
        n1   == r4 \div 365
        n    == r4 % 365
        year == n400 * 400 + 1 + n100 * 100 + n4 * 4 + n1
    IN  IF n1 = 4 \/ n100 = 4
        THEN [y |-> year - 1, m |-> 12, d |-> 31]
        ELSE LET m0 == (n + 50) \div 32
                 p0 == DaysBeforeMonth(year, m0)
                 mo == IF p0 > n THEN m0 - 1 ELSE m0
                 pr == DaysBeforeMonth(year, mo)
             IN  [y |-> year, m |-> mo, d |-> n - pr + 1]

NoInstant == [d |-> 0, s |-> 0, us |-> 0]

Before(a, b) ==
    \/ a.d < b.d
    \/ a.d = b.d /\ a.s < b.s
    \/ a.d = b.d /\ a.s = b.s /\ a.us < b.us

\* datetime - datetime -> timedelta (normalised)
Minus(a, b) ==
    LET us0 == a.us - b.us
        bu  == IF us0 < 0 THEN 1 ELSE 0
        s0  == a.s - b.s - bu
        bs  == IF s0 < 0 THEN 1 ELSE 0
    IN  [d  |-> a.d - b.d - bs,
         s  |-> s0 + 86400 * bs,
         us |-> us0 + 1000000 * bu]

\* datetime + timedelta, before the range check
Plus(a, dl) ==
    LET us0 == a.us + dl.us
        cu  == us0 \div 1000000
        s0  == a.s + dl.s + cu
        cs  == s0 \div 86400
    IN  [d  |-> a.d + dl.d + cs,
         s  |-> s0 % 86400,
         us |-> us0 % 1000000]

\* datetime + timedelta raises OverflowError outside 0001-01-01 .. 9999-12-31
InRange(t) == MinOrdinal <= t.d /\ t.d <= MaxOrdinal

(***************************************************************************)
(* DATETIME_FIELD_PATTERN and DATE_FIELD_PATTERN.                          *)
(***************************************************************************)
\* `$` of a pattern used with match(): the end of the string, or just before
\* a newline that ends the string.  Both patterns end in a character that is
\* not a newline, so what they have to match in full is this.
BeforeDollar(v) ==
    IF Len(v) > 0 /\ v[Len(v)] = "\n" THEN SubSeq(v, 1, Len(v) - 1) ELSE v

\* \d{4}-\d{2}-\d{2}
DateLayout(w) ==
    /\ Len(w) = 10
    /\ w[5] = "-" /\ w[8] = "-"
    /\ \A i \in {1, 2, 3, 4, 6, 7, 9, 10} : IsDigit(w[i])

\* \d{2}:\d{2}:\d{2}
TimeLayout(w) ==
    /\ Len(w) = 8
    /\ w[3] = ":" /\ w[6] = ":"
    /\ \A i \in {1, 2, 4, 5, 7, 8} : IsDigit(w[i])

MatchesDate(v) == DateLayout(BeforeDollar(v))

MatchesDateTime(v) ==
    LET w == BeforeDollar(v)
        n == Len(w)
    IN  /\ n >= 20
        /\ DateLayout(SubSeq(w, 1, 10))
        /\ w[11] = "T"
        /\ TimeLayout(SubSeq(w, 12, 19))
        /\ w[n] = "Z"
        /\ \/ n = 20
           \/ /\ n >= 22 /\ n <= 27
              /\ w[20] = "."
              /\ AllDigits(SubSeq(w, 21, n - 1))

\* match.group("fraction") or ""
FractionGroup(v) ==
    LET w == BeforeDollar(v)
    IN  IF Len(w) = 20 THEN <<>> ELSE SubSeq(w, 21, Len(w) - 1)

(***************************************************************************)
(* parse_utc_timestamp                                                     *)
(***************************************************************************)
DATETIME == "DATETIME_FIELD_PATTERN"
DATE == "DATE_FIELD_PATTERN"

NotRecognized == [res |-> "none", dt |-> NoInstant, vtype |-> "", frac |-> 0]
Raises == [res |-> "ValueError", dt |-> NoInstant, vtype |-> "", frac |-> 0]

\* datetime.fromisoformat of "<date>T<time>.<6 digits>+00:00": the instant, or
\* ValueError when a field is not ASCII digits or is out of range.
FromIso(date, time, micro, vtype, frac) ==
    IF ~(AllAscii(SubSeq(date, 1, 4)) /\ AllAscii(SubSeq(date, 6, 7))
         /\ AllAscii(SubSeq(date, 9, 10)) /\ AllAscii(SubSeq(time, 1, 2))
         /\ AllAscii(SubSeq(time, 4, 5)) /\ AllAscii(SubSeq(time, 7, 8))
         /\ AllAscii(micro))
    THEN Raises
    ELSE LET y  == NumVal(SubSeq(date, 1, 4))
             mo == NumVal(SubSeq(date, 6, 7))
             d  == NumVal(SubSeq(date, 9, 10))
             h  == NumVal(SubSeq(time, 1, 2))
             mi == NumVal(SubSeq(time, 4, 5))
             sc == NumVal(SubSeq(time, 7, 8))
         IN  IF /\ y >= 1 /\ mo >= 1 /\ mo <= 12
                /\ d >= 1 /\ d <= DaysInMonth(y, mo)
                /\ h <= 23 /\ mi <= 59 /\ sc <= 59
             THEN [res |-> "ok",
                   dt |-> [d |-> Ymd2ord(y, mo, d),
                           s |-> h * 3600 + mi * 60 + sc,
                           us |-> NumVal(micro)],
                   vtype |-> vtype, frac |-> frac]
             ELSE Raises

Zeros6 == <<"0", "0", "0", "0", "0", "0">>
Midnight == <<"0", "0", ":", "0", "0", ":", "0", "0">>

\* parse_utc_timestamp with the fraction zero-filled on the left
\* ("000000" + fraction)[-6:] in place of (fraction + "000000")[:6].
ParseLeftPadsFraction(value) ==
    IF MatchesDateTime(value)
    THEN LET w        == BeforeDollar(value)
             fraction == FractionGroup(value)
             padded   == SubSeq(Zeros6 \o fraction, Len(fraction) + 1,
                                Len(fraction) + 6)
         IN  FromIso(SubSeq(w, 1, 10), SubSeq(w, 12, 19), padded,
                     DATETIME, Len(fraction))
    ELSE IF MatchesDate(value)
    THEN FromIso(BeforeDollar(value), Midnight, Zeros6, DATE, 0)
    ELSE NotRecognized

parse_utc_timestamp(value) ==
    IF MatchesDateTime(value)
    THEN LET w        == BeforeDollar(value)
             fraction == FractionGroup(value)
             padded   == SubSeq(fraction \o Zeros6, 1, 6)
         IN  FromIso(SubSeq(w, 1, 10), SubSeq(w, 12, 19), padded,
                     DATETIME, Len(fraction))
    ELSE IF MatchesDate(value)
    THEN FromIso(BeforeDollar(value), Midnight, Zeros6, DATE, 0)
    ELSE NotRecognized

(***************************************************************************)
(* format_utc_timestamp                                                    *)
(***************************************************************************)
\* date.isoformat(): "%04d-%02d-%02d"
IsoDate(ymd) == Pad(ymd.y, 4) \o <<"-">> \o Pad(ymd.m, 2) \o <<"-">> \o Pad(ymd.d, 2)

\* value.strftime("%Y-%m-%dT%H:%M:%S"); the C library decides whether %Y
\* zero-fills a year below 1000.
Strftime(value) ==
    LET ymd == Ord2ymd(value.d)
    IN  (IF padYear THEN Pad(ymd.y, 4) ELSE Dec(ymd.y))
        \o <<"-">> \o Pad(ymd.m, 2) \o <<"-">> \o Pad(ymd.d, 2) \o <<"T">>
        \o Pad(value.s \div 3600, 2) \o <<":">>
        \o Pad((value.s \div 60) % 60, 2) \o <<":">>
        \o Pad(value.s % 60, 2)

format_utc_timestamp(value, value_type, fraction_len) ==
    IF value_type = DATE
    THEN IsoDate(Ord2ymd(value.d))
    ELSE IF fraction_len > 0
    THEN Strftime(value) \o <<".">>
         \o SubSeq(Pad(value.us, 6), 1, fraction_len) \o <<"Z">>
    ELSE Strftime(value) \o <<"Z">>

(***************************************************************************)
(* The record tree: what json.loads returns.  Every node is one record     *)
(* [t, s, keys, kids]: a string leaf ("str", text in s), another scalar    *)
(* ("atom": number, boolean, null; its literal in s), a mapping ("dict",   *)
(* kids[i] is the value of keys[i], in document order) or a sequence       *)
(* ("list").  A (container, key) handle into the tree is the path of child *)
(* positions that leads from the root to the leaf.                         *)
(***************************************************************************)
Str(s) == [t |-> "str", s |-> s, keys |-> <<>>, kids |-> <<>>]
Atom(s) == [t |-> "atom", s |-> s, keys |-> <<>>, kids |-> <<>>]
Dict(keys, kids) == [t |-> "dict", s |-> <<>>, keys |-> keys, kids |-> kids]
List(kids) == [t |-> "list", s |-> <<>>, keys |-> <<>>, kids |-> kids]

\* position of `key` in a mapping, 0 when absent
KeyPos(node, key) ==
    IF \E i \in 1..Len(node.keys) : node.keys[i] = key
    THEN CHOOSE i \in 1..Len(node.keys) : node.keys[i] = key
    ELSE 0

RECURSIVE NodeAt(_, _)
NodeAt(node, path) ==
    IF path = <<>> THEN node ELSE NodeAt(node.kids[Head(path)], Tail(path))

\* container[key] = text
RECURSIVE Overwrite(_, _, _)
Overwrite(node, path, text) ==
    IF path = <<>> THEN Str(text)
    ELSE [node EXCEPT !.kids[Head(path)] = Overwrite(@, Tail(path), text)]

(***************************************************************************)
(* iter_string_nodes: the string leaves below `value`, depth first, in     *)
(* document order, each with its handle.                                   *)
(***************************************************************************)
RECURSIVE iter_string_nodes(_, _)
RECURSIVE IterFrom(_, _, _)
IterFrom(value, path, i) ==
    IF i > Len(value.kids) THEN <<>>
    ELSE LET item == value.kids[i]
             p    == Append(path, i)
         IN  (IF item.t = "str" THEN <<[path |-> p, s |-> item.s]>>
              ELSE iter_string_nodes(item, p))
             \o IterFrom(value, path, i + 1)

iter_string_nodes(value, path) ==
    IF value.t \in {"dict", "list"} THEN IterFrom(value, path, 1) ELSE <<>>

(***************************************************************************)
(* FixtureUpdater                                                          *)
(***************************************************************************)
NoError == [kind |-> "", msg |-> "", idx |-> -1, raisedIn |-> ""]
NoLatest == [set |-> FALSE, dt |-> NoInstant, vtype |-> "", frac |-> 0]
NoDelta == [set |-> FALSE, d |-> 0, s |-> 0, us |-> 0]
NoTarget == [set |-> FALSE, dt |-> NoInstant]
NoReport == [branch |-> "", count |-> 0, original |-> <<>>, new |-> <<>>]
NoFile == [written |-> FALSE, tree |-> List(<<>>)]

\* HasFields without the isinstance check of the value of `fields`.
HasFieldsKeyOnly(item) ==
    /\ item.t = "dict"
    /\ KeyPos(item, "fields") > 0

\* isinstance(item, dict) and isinstance(item.get("fields"), dict)
HasFields(item) ==
    /\ item.t = "dict"
    /\ KeyPos(item, "fields") > 0
    /\ item.kids[KeyPos(item, "fields")].t = "dict"

\* The exception load_fixture raises on `doc`, NoError when it raises none.
\* Indices in messages count from 0.
LoadError(doc) ==
    IF doc.t # "list"
    THEN [kind |-> "TypeError", msg |-> "not an array", idx |-> -1,
          raisedIn |-> "load_fixture"]
    ELSE IF \E i \in 1..Len(doc.kids) : ~HasFields(doc.kids[i])
    THEN LET i == CHOOSE k \in 1..Len(doc.kids) :
                      /\ ~HasFields(doc.kids[k])
                      /\ \A j \in 1..(k - 1) : HasFields(doc.kids[j])
         IN  [kind |-> "TypeError",
              msg |-> IF doc.kids[i].t # "dict" THEN "is not an object"
                      ELSE "is missing a valid fields object",
              idx |-> i - 1, raisedIn |-> "load_fixture"]
    ELSE NoError

\* ScanRoot scanning the whole object: iter_string_nodes(obj).
ScanWholeItem(tree, i) == <<i>>

\* for obj in self.data: iter_string_nodes(obj["fields"])
ScanRoot(tree, i) == <<i, KeyPos(tree.kids[i], "fields")>>

RECURSIVE FieldLeaves(_, _)
FieldLeaves(tree, i) ==
    IF i > Len(tree.kids) THEN <<>>
    ELSE iter_string_nodes(NodeAt(tree, ScanRoot(tree, i)), ScanRoot(tree, i))
         \o FieldLeaves(tree, i + 1)

\* The loop of collect_dates over the leaves: the entries appended, and
\* whether parse_utc_timestamp raised (which ends the loop there).
RECURSIVE ScanLeaves(_, _, _)
ScanLeaves(leaves, i, acc) ==
    IF i > Len(leaves) THEN [found |-> acc, raised |-> FALSE]
    ELSE LET p == parse_utc_timestamp(leaves[i].s)
         IN  IF p.res = "ValueError" THEN [found |-> acc, raised |-> TRUE]
             ELSE ScanLeaves(leaves, i + 1,
                     IF p.res = "ok"
                     THEN Append(acc, [path |-> leaves[i].path, dt |-> p.dt,
                                       vtype |-> p.vtype, frac |-> p.frac])
                     ELSE acc)

\* FirstMax taking the first entry found: self.found_dates[0].
FirstEntry(found) == 1

\* max(self.found_dates, key=itemgetter(2)): the first entry no other exceeds
FirstMax(found) ==
    CHOOSE i \in 1..Len(found) :
        /\ \A j \in 1..Len(found) : ~Before(found[i].dt, found[j].dt)
        /\ \A j \in 1..(i - 1) : Before(found[j].dt, found[i].dt)

\* ApplyFrom shifting self.latest_dt, not the entry's own dt.
RECURSIVE ApplyFromLatest(_, _, _, _)
ApplyFromLatest(tree, found, i, dl) ==
    IF i > Len(found) THEN [tree |-> tree, n |-> i - 1, raised |-> FALSE]
    ELSE LET shifted == Plus(latest.dt, dl)
         IN  IF ~InRange(shifted)
             THEN [tree |-> tree, n |-> i - 1, raised |-> TRUE]
             ELSE ApplyFromLatest(
                     Overwrite(tree, found[i].path,
                         format_utc_timestamp(shifted, found[i].vtype,
                                              found[i].frac)),
                     found, i + 1, dl)

\* ApplyFrom leaving date-only entries as they are.
RECURSIVE ApplyFromSkipsDates(_, _, _, _)
ApplyFromSkipsDates(tree, found, i, dl) ==
    IF i > Len(found) THEN [tree |-> tree, n |-> i - 1, raised |-> FALSE]
    ELSE LET shifted == Plus(found[i].dt, dl)
         IN  IF found[i].vtype = DATE
             THEN ApplyFromSkipsDates(tree, found, i + 1, dl)
             ELSE IF ~InRange(shifted)
             THEN [tree |-> tree, n |-> i - 1, raised |-> TRUE]
             ELSE ApplyFromSkipsDates(
                     Overwrite(tree, found[i].path,
                         format_utc_timestamp(shifted, found[i].vtype,
                                              found[i].frac)),
                     found, i + 1, dl)

\* The loop of apply_shift: the tree after it, how many entries it wrote,
\* and whether dt + delta raised OverflowError (which ends the loop there).
RECURSIVE ApplyFrom(_, _, _, _)
ApplyFrom(tree, found, i, dl) ==
    IF i > Len(found) THEN [tree |-> tree, n |-> i - 1, raised |-> FALSE]
    ELSE LET shifted == Plus(found[i].dt, dl)
         IN  IF ~InRange(shifted)
             THEN [tree |-> tree, n |-> i - 1, raised |-> TRUE]
             ELSE ApplyFrom(
                     Overwrite(tree, found[i].path,
                         format_utc_timestamp(shifted, found[i].vtype,
                                              found[i].frac)),
                     found, i + 1, dl)

(***************************************************************************)
(* Inputs: fixture documents, target times, the clock.                     *)
(***************************************************************************)
MkDate(y, m, d) ==
    Pad(y, 4) \o <<"-">> \o Pad(m, 2) \o <<"-">> \o Pad(d, 2)

MkDateTime(y, m, d, h, mi, sc, fraction) ==
    MkDate(y, m, d) \o <<"T">> \o Pad(h, 2) \o <<":">> \o Pad(mi, 2)
    \o <<":">> \o Pad(sc, 2)
    \o (IF fraction = <<>> THEN <<>> ELSE <<".">> \o fraction) \o <<"Z">>

Hello == <<"h", "i">>

\* Timestamp texts stored under `fields`, one per item.
LeafTexts ==
    { MkDate(2023, 1, 1),
      MkDate(2023, 1, 3),
      MkDateTime(2023, 1, 2, 23, 0, 0, <<>>),
      MkDateTime(2023, 1, 3, 12, 0, 0, <<"5">>),
      MkDateTime(2023, 1, 3, 12, 0, 0, <<"5", "0", "0">>),
      MkDateTime(1, 1, 1, 0, 0, 0, <<>>),
      MkDate(2023, 13, 1) }

\* {"pk": 1, "created": "2023-01-01", "other": {"fields": {"d": "2023-01-03"}},
\*  "fields": {"name": "hi", "n": 5,
\*             "nested": {"when": "2023-01-02T23:00:00Z",
\*                        "tags": ["hi", "2023-01-01\n", null, ["2023-01-03"]]}}}
NestedItem ==
    Dict(<<"pk", "created", "other", "fields">>,
         << Atom(<<"1">>),
            Str(MkDate(2023, 1, 1)),
            Dict(<<"fields">>, <<Dict(<<"d">>, <<Str(MkDate(2023, 1, 3))>>)>>),
            Dict(<<"name", "n", "nested">>,
                 << Str(Hello),
                    Atom(<<"5">>),
                    Dict(<<"when", "tags">>,
                         << Str(MkDateTime(2023, 1, 2, 23, 0, 0, <<>>)),
                            List(<< Str(Hello),
                                    Str(MkDate(2023, 1, 1) \o <<"\n">>),
                                    Atom(<<"n", "u", "l", "l">>),
                                    List(<<Str(MkDate(2023, 1, 3))>>) >>) >>) >>) >>)

\* {"pk": 2, "fields": {"name": "hi", "n": 5}}: nothing to shift
PlainItem ==
    Dict(<<"pk", "fields">>,
         <<Atom(<<"2">>), Dict(<<"name", "n">>, <<Str(Hello), Atom(<<"5">>)>>)>>)

\* Items load_fixture rejects: a string, an object without `fields`, an
\* object whose `fields` is a sequence.
BadItems ==
    { Str(MkDate(2023, 1, 1)),
      Dict(<<"pk", "when">>, <<Atom(<<"3">>), Str(MkDate(2023, 1, 1))>>),
      Dict(<<"fields">>, <<List(<<Str(MkDate(2023, 1, 1))>>)>>) }

Items ==
    { Dict(<<"fields">>, <<Dict(<<"a">>, <<Str(t)>>)>>) : t \in LeafTexts }
    \cup {NestedItem, PlainItem} \cup BadItems

\* A top-level value that is not an array.
NotAnArray == Dict(<<"fields">>, <<Dict(<<>>, <<>>)>>)

Fixtures ==
    { List(items) : items \in UNION { [1..n -> Items] : n \in 0..MaxItems } }
    \cup {NotAnArray}

\* --latest-time values, as parse_target_latest_time reads them, and no value
TargetTexts ==
    { MkDate(2024, 1, 1),
      MkDateTime(2024, 1, 1, 12, 0, 0, <<>>),
      MkDateTime(2023, 6, 1, 0, 0, 0, <<>>),
      MkDateTime(999, 12, 31, 6, 0, 0, <<"2", "5">>) }

parse_target_latest_time(value) ==
    [set |-> TRUE, dt |-> parse_utc_timestamp(value).dt]

Targets == { parse_target_latest_time(t) : t \in TargetTexts } \cup {NoTarget}

\* datetime.now(UTC) at the moment compute_shift reads the clock
Clock == { parse_utc_timestamp(
              MkDateTime(2024, 6, 1, 8, 30, 15,
                         <<"1", "2", "3", "4", "5", "6">>)).dt }

(***************************************************************************)
(* main(): FixtureUpdater(...), run(), report().                           *)
(***************************************************************************)
Fresh ==
    /\ data = List(<<>>)
    /\ found_dates = <<>>
    /\ latest = NoLatest
    /\ delta = NoDelta
    /\ updated_count = 0
    /\ writes = 0
    /\ error = NoError
    /\ reported = NoReport

FmtIdle ==
    /\ txt = <<>>
    /\ parsed = NotRecognized
    /\ rendered = <<>>
    /\ reparsed = NotRecognized

Init ==
    /\ fixture \in Fixtures
    /\ target \in Targets
    /\ padYear \in BOOLEAN
    /\ Fresh
    /\ output = NoFile
    /\ pc = "START"
    /\ runNo = 1
    /\ prev = NoLatest
    /\ FmtIdle

Fail(e) == pc' = "FAILED" /\ error' = e

load_fixture ==
    /\ pc = "START"
    /\ IF LoadError(fixture) # NoError
       THEN Fail(LoadError(fixture)) /\ UNCHANGED data
       ELSE pc' = "LOADED" /\ data' = fixture /\ UNCHANGED error
    /\ UNCHANGED <<fixture, target, padYear, found_dates, latest, delta,
                   updated_count, output, writes, reported, runNo, prev>>
    /\ UNCHANGED fmtVars

collect_dates ==
    /\ pc = "LOADED"
    /\ LET r == ScanLeaves(FieldLeaves(data, 1), 1, found_dates)
       IN  /\ found_dates' = r.found
           /\ IF r.raised
              THEN Fail([kind |-> "ValueError", msg |-> "fromisoformat",
                         idx |-> -1, raisedIn |-> "collect_dates"])
              ELSE pc' = "SCANNED" /\ UNCHANGED error
    /\ UNCHANGED <<fixture, target, padYear, data, latest, delta,
                   updated_count, output, writes, reported, runNo, prev>>
    /\ UNCHANGED fmtVars

\* run(): if not self.found_dates: return
return_unchanged ==
    /\ pc = "SCANNED"
    /\ found_dates = <<>>
    /\ pc' = "DONE_NOCHANGE"
    /\ UNCHANGED <<runVars, padYear, fmtVars>>

compute_shift ==
    /\ pc = "SCANNED"
    /\ found_dates # <<>>
    /\ \E now \in Clock :
          LET m == found_dates[FirstMax(found_dates)]
              t == IF target.set THEN target.dt ELSE now
          IN  /\ latest' = [set |-> TRUE, dt |-> m.dt, vtype |-> m.vtype,
                            frac |-> m.frac]
              /\ delta' = [set |-> TRUE, d |-> Minus(t, m.dt).d,
                           s |-> Minus(t, m.dt).s, us |-> Minus(t, m.dt).us]
    /\ pc' = "PLANNED"
    /\ UNCHANGED <<fixture, target, padYear, data, found_dates,
                   updated_count, output, writes, error, reported, runNo, prev>>
    /\ UNCHANGED fmtVars

\* apply_shift saving what it has done so far when the shift overflows.
apply_shift_saves_on_error ==
    /\ pc = "PLANNED"
    /\ LET r == ApplyFrom(data, found_dates, 1, delta)
       IN  /\ data' = r.tree
           /\ IF r.raised
              THEN /\ Fail([kind |-> "OverflowError",
                            msg |-> "date value out of range",
                            idx |-> -1, raisedIn |-> "apply_shift"])
                   /\ output' = [written |-> TRUE, tree |-> r.tree]
                   /\ writes' = writes + 1
                   /\ UNCHANGED updated_count
              ELSE /\ pc' = "APPLIED"
                   /\ updated_count' = Len(found_dates)
                   /\ UNCHANGED <<error, output, writes>>
    /\ UNCHANGED <<fixture, target, padYear, found_dates, latest, delta,
                   reported, runNo, prev>>
    /\ UNCHANGED fmtVars

apply_shift ==
    /\ pc = "PLANNED"
    /\ IF ~delta.set
       THEN /\ Fail([kind |-> "RuntimeError", msg |-> "no delta", idx |-> -1,
                     raisedIn |-> "apply_shift"])
            /\ UNCHANGED <<data, updated_count>>
       ELSE LET r == ApplyFrom(data, found_dates, 1, delta)
            IN  /\ data' = r.tree
                /\ IF r.raised
                   THEN /\ Fail([kind |-> "OverflowError",
                                 msg |-> "date value out of range",
                                 idx |-> -1, raisedIn |-> "apply_shift"])
                        /\ UNCHANGED updated_count
                   ELSE /\ pc' = "APPLIED"
                        /\ updated_count' = Len(found_dates)
                        /\ UNCHANGED error
    /\ UNCHANGED <<fixture, target, padYear, found_dates, latest, delta,
                   output, writes, reported, runNo, prev>>
    /\ UNCHANGED fmtVars

write_output ==
    /\ pc = "APPLIED"
    /\ output' = [written |-> TRUE, tree |-> data]
    /\ writes' = writes + 1
    /\ pc' = "WRITTEN"
    /\ UNCHANGED <<fixture, target, padYear, data, found_dates, latest, delta,
                   updated_count, error, reported, runNo, prev>>
    /\ UNCHANGED fmtVars

\* run() returns after write_output
return_written ==
    /\ pc = "WRITTEN"
    /\ pc' = "DONE"
    /\ UNCHANGED <<runVars, padYear, fmtVars>>

report ==
    /\ pc \in {"DONE", "DONE_NOCHANGE"}
    /\ reported' =
          IF ~latest.set \/ ~delta.set
          THEN [NoReport EXCEPT !.branch = "nochange"]
          ELSE [branch   |-> "success",
                count    |-> updated_count,
                original |-> format_utc_timestamp(latest.dt, latest.vtype,
                                                  latest.frac),
                new      |-> format_utc_timestamp(Plus(latest.dt, delta),
                                                  latest.vtype, latest.frac)]
    /\ pc' = "REPORTED"
    /\ UNCHANGED <<fixture, target, padYear, data, found_dates, latest, delta,
                   updated_count, output, writes, error, runNo, prev>>
    /\ UNCHANGED fmtVars

\* The updater is started again on the file the previous run wrote, with the
\* same --latest-time.
run_again ==
    /\ pc = "REPORTED"
    /\ writes > 0
    /\ runNo < MaxRuns
    /\ fixture' = output.tree
    /\ prev' = latest
    /\ runNo' = runNo + 1
    /\ pc' = "START"
    /\ data' = List(<<>>)
    /\ found_dates' = <<>>
    /\ latest' = NoLatest
    /\ delta' = NoDelta
    /\ updated_count' = 0
    /\ writes' = 0
    /\ error' = NoError
    /\ reported' = NoReport
    /\ UNCHANGED <<target, padYear, output, fmtVars>>

Next ==
    \/ load_fixture
    \/ collect_dates
    \/ return_unchanged
    \/ compute_shift
    \/ apply_shift
    \/ write_output
    \/ return_written
    \/ report
    \/ run_again

Spec == Init /\ [][Next]_vars

(***************************************************************************)
(* The format specification: parse_utc_timestamp and format_utc_timestamp  *)
(* applied to texts, one text per behaviour.                               *)
(***************************************************************************)
FormatDates ==
    { MkDate(y, m, d) : y \in {0, 1, 999, 2024, 9999}, m \in {0, 1, 2, 12, 13},
                        d \in {0, 1, 29, 30, 31, 32} }

FormatFractions ==
    { <<>>, <<"5">>, <<"0", "5">>, <<"5", "0", "0">>, <<"1", "2", "3", "4">>,
      <<"0", "0", "0", "0", "1">>, <<"9", "9", "9", "9", "9", "9">>,
      <<"1", "2", "3", "4", "5", "6", "7">> }

FormatDateTimes ==
    { MkDateTime(ymd[1], ymd[2], ymd[3], hms[1], hms[2], hms[3], f) :
        ymd \in { <<1, 1, 1>>, <<999, 12, 31>>, <<2024, 2, 29>>,
                  <<2023, 2, 29>>, <<9999, 12, 31>> },
        hms \in { <<0, 0, 0>>, <<23, 59, 59>>, <<12, 34, 56>>, <<25, 0, 0>>,
                  <<23, 60, 0>>, <<23, 59, 60>> },
        f \in FormatFractions }

FormatOthers ==
    { <<>>, Hello,
      <<"2", "0", "2", "3", "-", "1", "-", "1">>,
      <<"2", "0", "2", "U+0663", "-", "0", "1", "-", "0", "1">>,
      MkDate(2023, 1, 1) \o <<"\n", "\n">>,
      MkDate(2023, 1, 1) \o <<"T">>,
      MkDate(2023, 1, 1) \o <<"T", "0", "0", ":", "0", "0", ":", "0", "0">>,
      MkDate(2023, 1, 1) \o <<"T", "0", "0", ":", "0", "0", ":", "0", "0", ".", "Z">>,
      MkDate(2023, 1, 1) \o <<"T", "0", "0", ":", "0", "0", ":", "0", "U+0663", "Z">>,
      MkDate(2023, 1, 1) \o <<"T", "0", "0", ":", "0", "0", ":", "0", "0", "z">>,
      <<" ">> \o MkDate(2023, 1, 1) }

FormatTexts ==
    LET plain == FormatDates \cup FormatDateTimes
    IN  plain \cup { t \o <<"\n">> : t \in plain } \cup FormatOthers

FmtInit ==
    /\ txt \in FormatTexts
    /\ padYear \in BOOLEAN
    /\ parsed = NotRecognized
    /\ rendered = <<>>
    /\ reparsed = NotRecognized
    /\ pc = "FMT_TEXT"
    /\ fixture = List(<<>>)
    /\ target = NoTarget
    /\ Fresh
    /\ output = NoFile
    /\ runNo = 1
    /\ prev = NoLatest

fmt_parse ==
    /\ pc = "FMT_TEXT"
    /\ parsed' = parse_utc_timestamp(txt)
    /\ pc' = IF parse_utc_timestamp(txt).res = "ValueError" THEN "FMT_RAISED"
             ELSE "FMT_PARSED"
    /\ UNCHANGED <<runVars, padYear, txt, rendered, reparsed>>

fmt_render ==
    /\ pc = "FMT_PARSED"
    /\ parsed.res = "ok"
    /\ rendered' = format_utc_timestamp(parsed.dt, parsed.vtype, parsed.frac)
    /\ pc' = "FMT_RENDERED"
    /\ UNCHANGED <<runVars, padYear, txt, parsed, reparsed>>

fmt_reparse ==
    /\ pc = "FMT_RENDERED"
    /\ reparsed' = parse_utc_timestamp(rendered)
    /\ pc' = IF parse_utc_timestamp(rendered).res = "ValueError"
             THEN "FMT_RAISED" ELSE "FMT_REPARSED"
    /\ UNCHANGED <<runVars, padYear, txt, parsed, rendered>>

FmtNext == fmt_parse \/ fmt_render \/ fmt_reparse

FormatSpec == FmtInit /\ [][FmtNext]_vars

(***************************************************************************)
(* Vocabulary of the properties.                                           *)
(***************************************************************************)
Entries == 1..Len(found_dates)

\* The run has written its output (found_dates is the list it replayed).
Written == writes > 0

\* The instant denoted by the string written back for entry i.
Denoted(i) == parse_utc_timestamp(NodeAt(output.tree, found_dates[i].path).s)

Recognized(i) == Denoted(i).res = "ok"

\* <<Denoted(1), ..., Denoted(Len(found_dates))>>
RECURSIVE DenotedFrom(_)
DenotedFrom(i) ==
    IF i > Len(found_dates) THEN <<>> ELSE <<Denoted(i)>> \o DenotedFrom(i + 1)

\* Entry i's instant after the shift, before it is rendered.
Shifted(i) == Plus(found_dates[i].dt, delta)

\* t truncated down to what a shape and fraction length can show.
Truncated(t, vtype, frac) ==
    IF vtype = DATE THEN [d |-> t.d, s |-> 0, us |-> 0]
    ELSE [d |-> t.d, s |-> t.s, us |-> t.us - (t.us % Pow10(6 - frac))]

\* t (an instant or a timedelta) is a whole number of the units a shape and
\* fraction length can show: days, or 10^(6 - frac) microseconds.
WholeUnits(t, vtype, frac) ==
    IF vtype = DATE THEN t.s = 0 /\ t.us = 0
    ELSE t.us % Pow10(6 - frac) = 0

\* The rendering of t in this shape is a recognized timestamp again:
\* strftime writes a year below 1000 with fewer than four digits unless the
\* platform zero-fills it.
FourDigitYear(t, vtype) ==
    vtype = DATE \/ padYear \/ Ord2ymd(t.d).y >= 1000

\* Entry i is at least as coarse as entry j.
AtLeastAsCoarse(i, j) ==
    \/ found_dates[i].vtype = DATE
    \/ /\ found_dates[j].vtype = DATETIME
       /\ found_dates[i].frac <= found_dates[j].frac

DeltaFits(i) == WholeUnits(delta, found_dates[i].vtype, found_dates[i].frac)

ZeroDelta == delta.d = 0 /\ delta.s = 0 /\ delta.us = 0

(***************************************************************************)
(* C1  Target anchoring.                                                   *)
(***************************************************************************)
\* C1 as stated: after a run with an explicit target, the maximum of the
\* instants denoted by the rewritten strings equals the target exactly,
\* whatever the shape and fraction length of the original maximum entry.
C1_MaxEqualsTarget ==
    (Written /\ target.set) =>
        LET den == DenotedFrom(1)
        IN  /\ \E i \in Entries : den[i].res = "ok" /\ den[i].dt = target.dt
            /\ \A i \in Entries :
                  den[i].res = "ok" => ~Before(target.dt, den[i].dt)

\* C1 amended: after a run with an explicit target that wrote its output,
\* latest_dt + delta is the target exactly, no rewritten string denotes an
\* instant after the target, and some rewritten string denotes the target
\* exactly if and only if an entry tied for the maximum can show the target
\* in its own shape and fraction length (date-only: the target is a
\* midnight; full instant: the target's microseconds are a multiple of
\* 10^(6 - fraction_length)) with a four-digit year.
C1_AnchoredUpToPrecision ==
    (Written /\ target.set) =>
        LET den == DenotedFrom(1)
        IN  /\ Plus(latest.dt, delta) = target.dt
            /\ \A i \in Entries :
                  den[i].res = "ok" => ~Before(target.dt, den[i].dt)
            /\ (\E i \in Entries : den[i].res = "ok" /\ den[i].dt = target.dt)
               <=> (\E i \in Entries :
                       /\ found_dates[i].dt = latest.dt
                       /\ WholeUnits(target.dt, found_dates[i].vtype,
                                     found_dates[i].frac)
                       /\ FourDigitYear(target.dt, found_dates[i].vtype))

\* A date-only maximum, a later-in-the-day target, and another entry.
C1_Witness ==
    /\ Written /\ target.set /\ runNo = 1
    /\ latest.vtype = DATE /\ target.dt.s # 0
    /\ Len(found_dates) >= 2
    /\ \E i \in Entries : found_dates[i].vtype = DATETIME /\ Recognized(i)

(***************************************************************************)
(* C2  Delta uniformity.                                                   *)
(***************************************************************************)
\* C2 as stated: for all found t1 <= t2, the instants denoted by the strings
\* written back are as far apart as t1 and t2 were, for every mix of shapes
\* and every delta.
C2_GapsPreserved ==
    Written =>
        LET den == DenotedFrom(1)
        IN  \A i, j \in Entries :
                ( /\ ~Before(found_dates[j].dt, found_dates[i].dt)
                  /\ den[i].res = "ok" /\ den[j].res = "ok" ) =>
                        Minus(den[j].dt, den[i].dt)
                            = Minus(found_dates[j].dt, found_dates[i].dt)

\* C2 amended: every string written back is the rendering of dt + delta (the
\* same delta for all), and where it is a recognized timestamp it denotes
\* dt + delta truncated down to the entry's own shape and fraction length;
\* so for t1 <= t2 the denoted gap equals t2 - t1 whenever delta is a whole
\* number of units of both entries (days for date-only, 10^(6 - f)
\* microseconds for a full instant with f fraction digits).
C2_GapsPreservedUpToPrecision ==
    Written =>
        LET den == DenotedFrom(1)
        IN  /\ \A i \in Entries :
                  /\ NodeAt(output.tree, found_dates[i].path)
                        = Str(format_utc_timestamp(Shifted(i),
                                  found_dates[i].vtype, found_dates[i].frac))
                  /\ den[i].res = "ok" =>
                        den[i].dt = Truncated(Shifted(i), found_dates[i].vtype,
                                              found_dates[i].frac)
            /\ \A i, j \in Entries :
                  ( /\ ~Before(found_dates[j].dt, found_dates[i].dt)
                    /\ den[i].res = "ok" /\ den[j].res = "ok"
                    /\ DeltaFits(i) /\ DeltaFits(j) ) =>
                        Minus(den[j].dt, den[i].dt)
                            = Minus(found_dates[j].dt, found_dates[i].dt)

\* A date-only and a full instant, apart, shifted by a whole number of days.
C2_Witness ==
    /\ Written /\ ~ZeroDelta
    /\ \E i, j \in Entries :
          /\ found_dates[i].vtype = DATE /\ found_dates[j].vtype = DATETIME
          /\ found_dates[i].dt # found_dates[j].dt
          /\ Recognized(i) /\ Recognized(j)
          /\ DeltaFits(i) /\ DeltaFits(j)

(***************************************************************************)
(* C3  Relative ordering.                                                  *)
(***************************************************************************)
\* C3 as stated: for leaves a < b, the strings written back, parsed again,
\* never satisfy a' > b', also for a mix of shapes and a delta that is not a
\* whole number of days.
C3_OrderPreserved ==
    Written =>
        LET den == DenotedFrom(1)
        IN  \A i, j \in Entries :
                Before(found_dates[i].dt, found_dates[j].dt) =>
                    ~(den[i].res = "ok" /\ den[j].res = "ok"
                      /\ Before(den[j].dt, den[i].dt))

\* C3 amended: for leaves a < b, the strings written back never parse to
\* a' > b' when a is at least as coarse as b (a is date-only, or both are
\* full instants and a has no more fraction digits than b) or when delta is
\* a whole number of b's units.
C3_OrderPreservedWhenCoarserFirst ==
    Written =>
        LET den == DenotedFrom(1)
        IN  \A i, j \in Entries :
                ( /\ Before(found_dates[i].dt, found_dates[j].dt)
                  /\ (AtLeastAsCoarse(i, j) \/ DeltaFits(j)) ) =>
                    ~(den[i].res = "ok" /\ den[j].res = "ok"
                      /\ Before(den[j].dt, den[i].dt))

\* An earlier date-only leaf, a later full instant, a delta with a time part.
C3_Witness ==
    /\ Written
    /\ \E i, j \in Entries :
          /\ Before(found_dates[i].dt, found_dates[j].dt)
          /\ found_dates[i].vtype = DATE /\ found_dates[j].vtype = DATETIME
          /\ ~DeltaFits(i)
          /\ Recognized(i) /\ Recognized(j)
          /\ Denoted(i).dt # Denoted(j).dt

(***************************************************************************)
(* C4  Frame of a run.                                                     *)
(***************************************************************************)
MatchesAPattern(text) == MatchesDateTime(text) \/ MatchesDate(text)

\* b is a below `fields`, up to the text of pattern-matching string leaves.
RECURSIVE SameUnderFields(_, _)
SameUnderFields(a, b) ==
    /\ a.t = b.t
    /\ a.keys = b.keys
    /\ Len(a.kids) = Len(b.kids)
    /\ (a.t = "str" /\ MatchesAPattern(a.s)) \/ a.s = b.s
    /\ \A i \in 1..Len(a.kids) : SameUnderFields(a.kids[i], b.kids[i])

\* b is item a with nothing changed outside the value of its `fields` key.
SameItem(a, b) ==
    /\ a.t = b.t /\ a.s = b.s /\ a.keys = b.keys
    /\ Len(a.kids) = Len(b.kids)
    /\ \A k \in 1..Len(a.kids) :
          IF a.t = "dict" /\ a.keys[k] = "fields"
          THEN SameUnderFields(a.kids[k], b.kids[k])
          ELSE a.kids[k] = b.kids[k]

SameFrame(a, b) ==
    /\ a.t = b.t /\ a.s = b.s /\ a.keys = b.keys
    /\ Len(a.kids) = Len(b.kids)
    /\ \A i \in 1..Len(a.kids) : SameItem(a.kids[i], b.kids[i])

PhaseOrder ==
    { <<"START", "LOADED">>, <<"LOADED", "SCANNED">>,
      <<"SCANNED", "DONE_NOCHANGE">>, <<"SCANNED", "PLANNED">>,
      <<"PLANNED", "APPLIED">>, <<"APPLIED", "WRITTEN">>,
      <<"WRITTEN", "DONE">>, <<"DONE", "REPORTED">>,
      <<"DONE_NOCHANGE", "REPORTED">>,
      <<"START", "FAILED">>, <<"LOADED", "FAILED">>, <<"PLANNED", "FAILED">>,
      <<"REPORTED", "START">> }

AllOverwritten(tree) ==
    \A i \in Entries :
        NodeAt(tree, found_dates[i].path)
            = Str(format_utc_timestamp(Shifted(i), found_dates[i].vtype,
                                       found_dates[i].frac))

\* C5: a run writes the output at most once, only from APPLIED, when every
\* entry of found_dates has been overwritten with its shifted rendering, and
\* what it writes is that tree; a run that fails has written nothing and
\* leaves the output file as it was; the phases follow one another only in
\* the order LOADED, SCANNED, PLANNED, APPLIED, WRITTEN, DONE.
C5_NoPartialSuccess ==
    [][ /\ writes' <= 1
        /\ (writes' > writes) =>
              /\ pc = "APPLIED"
              /\ updated_count = Len(found_dates)
              /\ AllOverwritten(data)
              /\ output'.tree = data
        /\ (writes' = writes) => output' = output
        /\ (pc' = "FAILED") => writes' = 0
        /\ <<pc, pc'>> \in PhaseOrder ]_vars

\* apply_shift failed after it had overwritten an entry: nothing written.
C5_Witness ==
    /\ pc = "FAILED" /\ error.raisedIn = "apply_shift"
    /\ data # fixture
    /\ writes = 0 /\ output = NoFile

(***************************************************************************)
(* C6  No-match outcome.                                                   *)
(***************************************************************************)
\* C6 as stated: with no recognized timestamp under any `fields`, the run
\* ends with no delta, no latest_dt, updated_count 0, an unmodified tree, no
\* output, and report takes the "no changes" branch; and whenever at least
\* one timestamp is found, the output is written and report takes the
\* success branch.
C6_NoMatchOutcome ==
    /\ (pc \in {"DONE_NOCHANGE", "REPORTED"} /\ found_dates = <<>>) =>
          /\ ~delta.set /\ ~latest.set /\ updated_count = 0
          /\ data = fixture /\ writes = 0
          /\ pc = "REPORTED" => reported.branch = "nochange"
    /\ (pc \in {"REPORTED", "FAILED"} /\ found_dates # <<>>) =>
          /\ writes = 1
          /\ pc = "REPORTED" /\ reported.branch = "success"

(***************************************************************************)
(* C7  Structural error.                                                   *)
(***************************************************************************)
Offending(item) ==
    \/ item.t # "dict"
    \/ \A k \in 1..Len(item.keys) :
          item.keys[k] = "fields" => item.kids[k].t # "dict"

\* C7: when an item of the top-level sequence is not an object or has no
\* mapping-valued `fields`, load_fixture fails with a TypeError naming the
\* index of the first such item, and nothing else happens: self.data and
\* found_dates stay empty, no delta, no value shifted, no output.
C7_StructuralError ==
    ( /\ fixture.t = "list"
      /\ \E i \in 1..Len(fixture.kids) : Offending(fixture.kids[i])
      /\ pc # "START" ) =>
        /\ pc = "FAILED"
        /\ error.kind = "TypeError" /\ error.raisedIn = "load_fixture"
        /\ error.idx >= 0
        /\ Offending(fixture.kids[error.idx + 1])
        /\ \A j \in 1..error.idx : ~Offending(fixture.kids[j])
        /\ data = List(<<>>) /\ found_dates = <<>>
        /\ ~delta.set /\ ~latest.set /\ updated_count = 0
        /\ writes = 0 /\ output = NoFile

\* The second item is the offending one; the first holds a timestamp.
C7_Witness ==
    /\ pc = "FAILED" /\ error.idx = 1
    /\ Len(fixture.kids) = 2
    /\ \E l \in 1..Len(FieldLeaves(List(<<fixture.kids[1]>>), 1)) :
          parse_utc_timestamp(
              FieldLeaves(List(<<fixture.kids[1]>>), 1)[l].s).res = "ok"

(***************************************************************************)
(* C8  Round-trip precision (format specification).                        *)
(***************************************************************************)
\* C8 as stated: for every text parse_utc_timestamp recognizes, rendering
\* the parsed instant with its shape and fraction length returns exactly
\* that text, and parsing the rendering yields the same instant and the
\* same fraction length.
C8_RoundTrip ==
    /\ pc \in {"FMT_RENDERED", "FMT_REPARSED", "FMT_RAISED"} /\ parsed.res = "ok"
          => rendered = txt
    /\ pc = "FMT_REPARSED" =>
          /\ reparsed.res = "ok"
          /\ reparsed.dt = parsed.dt
          /\ reparsed.frac = parsed.frac

(***************************************************************************)
(* C9  parse has exactly two outcomes.                                     *)
(***************************************************************************)
\* C9 as stated: parse_utc_timestamp never fails, so once load_fixture has
\* succeeded the scan never aborts the run, and every failure caused by the
\* content of the input happens in load_fixture.
C9_OnlyLoadFails ==
    pc = "FAILED" => error.raisedIn = "load_fixture"

====
